---- MODULE Spec2Model ----
(***************************************************************************)
(* loyalty-api: a Rocket HTTP service over two SQLite tables (users and    *)
(* cards).  The model follows src/src/main.rs handler by handler.  Text    *)
(* that the code formats or parses (cookie payloads, path and query        *)
(* parameters, ids in responses) is a sequence of one-character strings.   *)
(***************************************************************************)
EXTENDS Integers, Sequences, FiniteSets

VARIABLES users, cards, userSeq, cardSeq, jar, tasks, quota, resp

vars == <<users, cards, userSeq, cardSeq, jar, tasks, quota, resp>>

(***************************************************************************)
(* Bounds and program constants                                            *)
(***************************************************************************)
\* card inserts admitted in one behaviour, from an empty store and from a
\* preloaded one
MaxCreates == 1
MaxPagedCreates == 1

\* i32::MAX and the decimal base of str::parse / to_string
I32Max == 2147483647
Radix == 10

\* defaults of GET /loyalties
DefaultLimit == 10
DefaultOffset == 0

I32Min == (-I32Max) - 1

Clients == {"c1", "c2"}

(***************************************************************************)
(* Option values                                                           *)
(***************************************************************************)
NoneInt == [some |-> FALSE, val |-> 0]
SomeInt(v) == [some |-> TRUE, val |-> v]
NoneStr == [some |-> FALSE, val |-> ""]
SomeStr(s) == [some |-> TRUE, val |-> s]

(***************************************************************************)
(* Text: i32 to_string and str::parse::<i32>                               *)
(***************************************************************************)
Digits == <<"0", "1", "2", "3", "4", "5", "6", "7", "8", "9">>

DigitChar(d) == Digits[d + 1]

IsDigit(ch) == \E d \in 0..9 : Digits[d + 1] = ch

DigitVal(ch) == CHOOSE d \in 0..9 : Digits[d + 1] = ch

RECURSIVE NatToString(_)
NatToString(n) ==
    IF n < Radix THEN <<DigitChar(n)>>
    ELSE Append(NatToString(n \div Radix), DigitChar(n % Radix))

\* i32::to_string; the magnitude of a negative value is built from
\* -(n + 1) so that i32::MIN needs no value above i32::MAX
RECURSIVE NegToString(_)
NegToString(n) ==
    IF n > -Radix THEN <<DigitChar(-n)>>
    ELSE LET q == -((-(n + 1)) \div Radix) - (IF (-(n + 1)) % Radix = Radix - 1 THEN 1 ELSE 0)
             r == n - q * Radix
         IN  Append(NegToString(q), DigitChar(-r))

ToString(n) == IF n >= 0 THEN NatToString(n) ELSE <<"-">> \o NegToString(n)

\* the digit loop of from_str_radix for a non-negative value:
\* checked_mul(10) then checked_add(digit)
RECURSIVE AccumulatePos(_, _, _)
AccumulatePos(s, acc, hi) ==
    IF s = <<>> THEN SomeInt(acc)
    ELSE IF ~IsDigit(Head(s)) THEN NoneInt
    ELSE IF acc > hi \div Radix THEN NoneInt
    ELSE IF acc * Radix > hi - DigitVal(Head(s)) THEN NoneInt
    ELSE AccumulatePos(Tail(s), acc * Radix + DigitVal(Head(s)), hi)

\* the digit loop for a negative value: checked_mul(10) then checked_sub(digit)
RECURSIVE AccumulateNeg(_, _, _)
AccumulateNeg(s, acc, lo) ==
    IF s = <<>> THEN SomeInt(acc)
    ELSE IF ~IsDigit(Head(s)) THEN NoneInt
    ELSE IF acc < (lo + (Radix - 1)) \div Radix THEN NoneInt
    ELSE IF acc * Radix < lo + DigitVal(Head(s)) THEN NoneInt
    ELSE AccumulateNeg(Tail(s), acc * Radix - DigitVal(Head(s)), lo)

\* str::parse for a signed integer with range lo..hi, as an Option (.ok())
ParseSigned(s, lo, hi) ==
    IF s = <<>> THEN NoneInt
    ELSE IF Head(s) \in {"+", "-"} /\ Len(s) = 1 THEN NoneInt
    ELSE IF Head(s) = "+" THEN AccumulatePos(Tail(s), 0, hi)
    ELSE IF Head(s) = "-" THEN AccumulateNeg(Tail(s), 0, lo)
    ELSE AccumulatePos(s, 0, hi)

\* a plausible slip: a parse that stops at the first character that is no
\* digit and keeps what it has read
RECURSIVE LenientDigits(_, _)
LenientDigits(s, acc) ==
    IF s = <<>> \/ ~IsDigit(Head(s)) \/ acc > I32Max \div Radix - 1 THEN acc
    ELSE LenientDigits(Tail(s), acc * Radix + DigitVal(Head(s)))

ParseI32Lenient(s) ==
    IF s # <<>> /\ Head(s) = "-" THEN SomeInt(-LenientDigits(Tail(s), 0))
    ELSE IF s # <<>> /\ Head(s) = "+" THEN SomeInt(LenientDigits(Tail(s), 0))
    ELSE SomeInt(LenientDigits(s, 0))

ParseI32(s) == ParseSigned(s, I32Min, I32Max)

\* str::parse::<i64> of limit and offset.  The model checker's integers are
\* 32 bits wide; every string of ListQueries is far shorter than the 19
\* digits of i64::MAX, so on them this parse and the i64 parse agree.
ParseI64(s) == ParseSigned(s, I32Min, I32Max)

(***************************************************************************)
(* Request inputs                                                          *)
(***************************************************************************)
EmailA == <<"a", "@", "x">>
EmailB == <<"b", "@", "x">>

\* POST /signup bodies: two valid ones, three invalid
SignupBodies ==
    { [email |-> EmailA, name |-> "A", pass |-> "p"],
      [email |-> EmailB, name |-> "B", pass |-> "q"],
      [email |-> <<>>, name |-> "A", pass |-> "p"],
      [email |-> <<"a", "x">>, name |-> "A", pass |-> "p"],
      [email |-> EmailB, name |-> "", pass |-> "q"] }

\* POST /signin bodies
SigninBodies == [email : {EmailA, EmailB}, pass : {"p", "q"}]

\* PUT /loyalties bodies
CardBodies ==
    { [name |-> "Store", color |-> NoneStr, code |-> "123"],
      [name |-> "Cafe", color |-> SomeStr("red"), code |-> "777"] }

\* the <loyalty_id> path segment of DELETE /loyalties/<loyalty_id>
IdStrings ==
    { <<"1">>, <<"+", "2">>, <<"1", "1">>, <<"-", "1">>, <<"1", "x">>,
      <<"2", "1", "4", "7", "4", "8", "3", "6", "4", "7">>,
      <<"2", "1", "4", "7", "4", "8", "3", "6", "4", "8">> }

\* limit: Option<String> and offset: Option<String>
NoneQuery == [some |-> FALSE, val |-> <<>>]
SomeQuery(s) == [some |-> TRUE, val |-> s]

\* the <limit, offset> pairs of GET /loyalties
ListQueries ==
    { <<NoneQuery, NoneQuery>>,
      <<SomeQuery(<<"a", "b", "c">>), SomeQuery(<<"-", "x">>)>>,
      <<SomeQuery(<<"1">>), NoneQuery>>,
      <<SomeQuery(<<"1">>), SomeQuery(<<"1">>)>>,
      <<SomeQuery(<<"-", "1">>), SomeQuery(<<"-", "1">>)>>,
      <<SomeQuery(<<"0">>), SomeQuery(<<"0">>)>> }

(***************************************************************************)
(* Session cookie: the private (sealed) cookie "user_id".  uid records for *)
(* which user the server sealed the value; no handler reads it.            *)
(***************************************************************************)
NoCookie == [present |-> FALSE, sealed |-> FALSE, payload |-> <<>>, uid |-> 0]

\* a value the client made up or altered: it does not verify
Forged(payload) == [present |-> TRUE, sealed |-> FALSE, payload |-> payload, uid |-> 0]

ForgedCookies == {Forged(<<"1">>)}

\* cookies.add_private(Cookie::new("user_id", user.id.to_string()))
AddPrivate(id) == [present |-> TRUE, sealed |-> TRUE, payload |-> ToString(id), uid |-> id]

\* a plausible slip: get("user_id") in place of get_private("user_id")
GetPlain(ck) ==
    IF ck.present THEN [some |-> TRUE, val |-> ck.payload]
    ELSE [some |-> FALSE, val |-> <<>>]

\* request.cookies().get_private("user_id"): the payload of a cookie that
\* is present and verifies
GetPrivate(ck) ==
    IF ck.present /\ ck.sealed THEN [some |-> TRUE, val |-> ck.payload]
    ELSE [some |-> FALSE, val |-> <<>>]

(***************************************************************************)
(* APIError and its Responder                                              *)
(***************************************************************************)
NoError == [tag |-> "none", variant |-> "-", kind |-> "-"]
SignError == [tag |-> "SignError", variant |-> "-", kind |-> "-"]
NotAuthorized == [tag |-> "NotAuthorized", variant |-> "-", kind |-> "-"]
ParsingError == [tag |-> "ParsingError", variant |-> "-", kind |-> "-"]
DieselError(e) == [tag |-> "DieselError", variant |-> e.variant, kind |-> e.kind]

\* diesel::result::Error values; DieselOk stands for a call that succeeded
DieselOk == [variant |-> "Ok", kind |-> "-"]
UniqueViolation == [variant |-> "DatabaseError", kind |-> "UniqueViolation"]
DbUnknown == [variant |-> "DatabaseError", kind |-> "Unknown"]
DeserializationError == [variant |-> "DeserializationError", kind |-> "-"]

StoreFaults == {DbUnknown, DeserializationError}

\* a plausible slip: no special case for the unique violation
RespondToNoUniqueCase(e) ==
    CASE e.tag = "SignError" -> 400
      [] e.tag = "DieselError" -> 500
      [] e.tag = "ParsingError" -> 400
      [] OTHER -> 500

RespondTo(e) ==
    CASE e.tag = "SignError" -> 400
      [] e.tag = "DieselError" ->
            IF e.variant = "DatabaseError" /\ e.kind = "UniqueViolation" THEN 400 ELSE 500
      [] e.tag = "ParsingError" -> 400
      [] OTHER -> 500

\* impl FromRequest for User
FromRequest(ck) ==
    LET c == GetPrivate(ck)
        id == IF c.some THEN ParseI32(c.val) ELSE NoneInt
    IN  IF id.some
        THEN [ok |-> TRUE, user |-> id.val, status |-> 200, err |-> NoError]
        ELSE [ok |-> FALSE, user |-> 0, status |-> 403, err |-> NotAuthorized]

(***************************************************************************)
(* Credential Store: tables users and cards                                *)
(***************************************************************************)
\* rows in the order a table scan returns them (by id)
RECURSIVE ById(_)
ById(rows) ==
    IF rows = {} THEN <<>>
    ELSE LET r == CHOOSE x \in rows : \A y \in rows : x.id <= y.id
         IN  <<r>> \o ById(rows \ {r})

RECURSIVE Reverse(_)
Reverse(s) == IF s = <<>> THEN <<>> ELSE Append(Reverse(Tail(s)), Head(s))

\* LIMIT n OFFSET m of SQLite: a negative limit is no limit, a negative
\* offset is 0
LimitOffset(rows, limit, offset) ==
    LET off == IF offset < 0 THEN 0 ELSE offset
        from == IF off > Len(rows) THEN Len(rows) ELSE off
        left == Len(rows) - from
        n == IF limit < 0 \/ limit > left THEN left ELSE limit
    IN  SubSeq(rows, from + 1, from + n)

\* signup's validate(): non-empty fields and a well-formed email
IsEmail(s) ==
    /\ Cardinality({i \in 1..Len(s) : s[i] = "@"}) = 1
    /\ s[1] # "@"
    /\ s[Len(s)] # "@"

Validate(body) ==
    /\ body.email # <<>>
    /\ IsEmail(body.email)
    /\ body.name # ""
    /\ body.pass # ""

\* INSERT INTO users: the unique index on email refuses a second row
InsertUser(body) ==
    IF \E u \in users : u.email = body.email
    THEN [err |-> UniqueViolation, rows |-> users, seq |-> userSeq]
    ELSE [err |-> DieselOk,
          rows |-> users \cup {[id |-> userSeq + 1, email |-> body.email,
                                name |-> body.name, pass |-> body.pass]},
          seq |-> userSeq + 1]

\* a plausible slip: the password is not part of the filter
FindUserByEmail(email, pass) ==
    LimitOffset(ById({u \in users : u.email = email}), 1, 0)

\* users.filter(email.eq(..).and(pass.eq(..))).limit(1)
FindUser(email, pass) ==
    LimitOffset(ById({u \in users : u.email = email /\ u.pass = pass}), 1, 0)

\* users.filter(id.eq(user.0)).limit(1)
FindUserById(uid) == LimitOffset(ById({u \in users : u.id = uid}), 1, 0)

\* the id the cards table gives its next row: one never given before
NextCardId == cardSeq + 1

\* a plausible slip: the color is not stored
NewLoyaltyNoColor(body, uid) ==
    [id |-> NextCardId, name |-> body.name, color |-> NoneStr,
     code |-> body.code, user_id |-> uid]

\* NewLoyalty { name, color, code, user_id } as inserted into cards
NewLoyalty(body, uid) ==
    [id |-> NextCardId, name |-> body.name, color |-> body.color,
     code |-> body.code, user_id |-> uid]

\* cards.order(id.desc()).limit(1)
LastInserted == LimitOffset(Reverse(ById(cards)), 1, 0)

\* a plausible slip: the owner filter is missing
LoyaltiesOfAnyone(uid, limit, offset) ==
    LimitOffset(ById(cards), limit, offset)

\* cards.filter(user_id.eq(user.0)).limit(limit).offset(offset)
LoyaltiesOf(uid, limit, offset) ==
    LimitOffset(ById({k \in cards : k.user_id = uid}), limit, offset)

\* diesel::delete(cards.filter(id.eq(loyalty_id)))
DeleteById(lid) == {k \in cards : k.id # lid}

AddLoyaltyResponse(row) ==
    [id |-> ToString(row.id), name |-> row.name, color |-> row.color, code |-> row.code]

RECURSIVE MapResponse(_)
MapResponse(rows) ==
    IF rows = <<>> THEN <<>> ELSE <<AddLoyaltyResponse(Head(rows))>> \o MapResponse(Tail(rows))

(***************************************************************************)
(* Requests in flight and the last response sent                           *)
(***************************************************************************)
Idle == [kind |-> "idle", body |-> <<>>, user |-> 0, inserted |-> 0, fresh |-> FALSE]

NoAdd == [some |-> FALSE, inserted |-> 0, body |-> <<>>, user |-> 0, fresh |-> FALSE]

\* route, client, status and body (text or out) are the response; the other
\* fields record what the request did: the error value it ended with, the
\* principal its guard produced, the cookie it carried and the cookie the
\* client holds afterwards, the number of store calls, whether a store call
\* failed, whether the tables changed, the rows loaded, the request's
\* input, whether the row asked for was there before the call (found), the
\* id inserted, whether that id (or, for signup, the email when the request
\* was validated) was unused, and for a list the create it follows.
NoResp ==
    [route |-> "none", client |-> "-", status |-> 0, text |-> "", out |-> <<>>,
     err |-> NoError, principal |-> NoneInt, cookie |-> NoCookie,
     cookieAfter |-> NoCookie, dbCalls |-> 0, fault |-> FALSE, changed |-> FALSE,
     rows |-> <<>>, req |-> <<>>, found |-> FALSE, inserted |-> 0, fresh |-> FALSE,
     prevAdd |-> NoAdd]

Request(route, c) ==
    [NoResp EXCEPT !.route = route, !.client = c, !.cookie = jar[c], !.cookieAfter = jar[c]]

\* Outcome::Failure((Status::Forbidden, APIError::NotAuthorized)): the
\* handler is not called
Forbidden(route, c) ==
    [Request(route, c) EXCEPT !.status = 403, !.err = NotAuthorized]

\* a handler returned Err(e): APIError's Responder builds the response
Failed(r, e) == [r EXCEPT !.status = RespondTo(e), !.err = e]

\* Responses are observed one at a time: a request is taken up once the last
\* response has been read.  Requests already in flight stay in flight.
Await == resp = NoResp

\* the client reads the response
Receive ==
    /\ resp # NoResp
    /\ resp' = NoResp
    /\ UNCHANGED <<users, cards, userSeq, cardSeq, jar, tasks, quota>>

(***************************************************************************)
(* Handlers                                                                *)
(***************************************************************************)
\* POST /signup, up to the await of db.run
SignupValidate(c, body) ==
    /\ Await
    /\ tasks[c] = Idle
    /\ IF Validate(body)
       THEN /\ tasks' = [tasks EXCEPT ![c] =
                            [Idle EXCEPT !.kind = "signup", !.body = body,
                                         !.fresh = ~\E u \in users : u.email = body.email]]
            /\ UNCHANGED resp
       ELSE /\ resp' = Failed([Request("signup", c) EXCEPT !.req = body], SignError)
            /\ UNCHANGED tasks
    /\ UNCHANGED <<users, cards, userSeq, cardSeq, jar, quota>>

\* POST /signup, the insert run by db.run
SignupInsert(c, f) ==
    /\ Await
    /\ tasks[c].kind = "signup"
    /\ LET body == tasks[c].body
           ins == InsertUser(body)
           r == [Request("signup", c) EXCEPT
                    !.req = body, !.dbCalls = 1, !.fault = (f # DieselOk),
                    !.found = (\E u \in users : u.email = body.email),
                    !.fresh = tasks[c].fresh]
       IN  IF f # DieselOk
           THEN /\ resp' = Failed(r, DieselError(f))
                /\ UNCHANGED <<users, userSeq>>
           ELSE IF ins.err # DieselOk
           THEN /\ resp' = Failed(r, DieselError(ins.err))
                /\ UNCHANGED <<users, userSeq>>
           ELSE /\ users' = ins.rows
                /\ userSeq' = ins.seq
                /\ resp' = [r EXCEPT !.status = 200, !.changed = TRUE,
                                     !.inserted = ins.seq]
    /\ tasks' = [tasks EXCEPT ![c] = Idle]
    /\ UNCHANGED <<cards, cardSeq, jar, quota>>

\* POST /signin
Signin(c, body, f) ==
    /\ Await
    /\ tasks[c] = Idle
    /\ LET fetched == FindUser(body.email, body.pass)
           r == [Request("signin", c) EXCEPT
                    !.req = body, !.dbCalls = 1, !.fault = (f # DieselOk)]
       IN  IF f # DieselOk
           THEN /\ resp' = Failed(r, DieselError(f))
                /\ UNCHANGED jar
           ELSE IF fetched = <<>>
           THEN /\ resp' = [r EXCEPT !.status = 403, !.text = "invalid credentials"]
                /\ UNCHANGED jar
           ELSE /\ jar' = [jar EXCEPT ![c] = AddPrivate(fetched[1].id)]
                /\ resp' = [r EXCEPT !.status = 200, !.text = "connected",
                                     !.rows = fetched, !.found = TRUE,
                                     !.cookieAfter = jar'[c]]
    /\ UNCHANGED <<users, cards, userSeq, cardSeq, tasks, quota>>

\* a plausible slip: the cookie is not removed
SignOutKeepsCookie(c) ==
    /\ Await
    /\ tasks[c] = Idle
    /\ resp' = [Request("signout", c) EXCEPT !.status = 200, !.text = "logged out"]
    /\ UNCHANGED <<users, cards, userSeq, cardSeq, jar, tasks, quota>>

\* POST /signout
SignOut(c) ==
    /\ Await
    /\ tasks[c] = Idle
    /\ jar' = [jar EXCEPT ![c] = NoCookie]
    /\ resp' = [Request("signout", c) EXCEPT
                   !.status = 200, !.text = "logged out", !.cookieAfter = jar'[c]]
    /\ UNCHANGED <<users, cards, userSeq, cardSeq, tasks, quota>>

\* GET /userinfo
GetUser(c, f) ==
    /\ Await
    /\ tasks[c] = Idle
    /\ LET auth == FromRequest(jar[c])
           fetched == FindUserById(auth.user)
           r == [Request("userinfo", c) EXCEPT
                    !.principal = SomeInt(auth.user), !.dbCalls = 1,
                    !.fault = (f # DieselOk)]
       IN  resp' = IF ~auth.ok THEN Forbidden("userinfo", c)
                   ELSE IF f # DieselOk THEN [r EXCEPT !.status = 404]
                   ELSE IF fetched = <<>> THEN [r EXCEPT !.status = 404]
                   ELSE [r EXCEPT !.status = 200, !.rows = fetched, !.out = fetched,
                                  !.found = TRUE]
    /\ UNCHANGED <<users, cards, userSeq, cardSeq, jar, tasks, quota>>

\* PUT /loyalties, up to and including the insert
AddLoyaltyInsert(c, body, f) ==
    /\ Await
    /\ tasks[c] = Idle
    /\ LET auth == FromRequest(jar[c])
           row == NewLoyalty(body, auth.user)
           r == [Request("add", c) EXCEPT
                    !.principal = SomeInt(auth.user), !.req = body, !.dbCalls = 1,
                    !.fault = (f # DieselOk)]
       IN  IF ~auth.ok
           THEN /\ resp' = [Forbidden("add", c) EXCEPT !.req = body]
                /\ UNCHANGED <<cards, cardSeq, tasks, quota>>
           ELSE IF f # DieselOk
           THEN /\ resp' = [r EXCEPT !.status = 404]
                /\ UNCHANGED <<cards, cardSeq, tasks, quota>>
           ELSE /\ quota > 0
                /\ cards' = cards \cup {row}
                /\ cardSeq' = cardSeq + 1
                /\ quota' = quota - 1
                /\ tasks' = [tasks EXCEPT ![c] =
                                [kind |-> "add", body |-> body, user |-> auth.user,
                                 inserted |-> row.id,
                                 fresh |-> (row.id \notin 1..cardSeq)]]
                /\ UNCHANGED resp
    /\ UNCHANGED <<users, userSeq, jar>>

\* PUT /loyalties, from the read of the last inserted row on
AddLoyaltyReadBack(c, f) ==
    /\ Await
    /\ tasks[c].kind = "add"
    /\ LET t == tasks[c]
           last_inserted == LastInserted
           r == [Request("add", c) EXCEPT
                    !.principal = SomeInt(t.user), !.req = t.body, !.dbCalls = 2,
                    !.fault = (f # DieselOk), !.changed = TRUE,
                    !.inserted = t.inserted,
                    !.fresh = t.fresh]
       IN  resp' = IF f # DieselOk THEN [r EXCEPT !.status = 404]
                   ELSE IF last_inserted = <<>>
                   THEN [r EXCEPT !.status = 500, !.text = "panic"]
                   ELSE [r EXCEPT !.status = 200, !.rows = last_inserted,
                                  !.out = MapResponse(last_inserted), !.found = TRUE]
    /\ tasks' = [tasks EXCEPT ![c] = Idle]
    /\ UNCHANGED <<users, cards, userSeq, cardSeq, jar, quota>>

\* limit.and_then(|p| p.parse().ok()).unwrap_or(10), and the same for offset
ParamOr(q, default) ==
    IF q.some /\ ParseI64(q.val).some THEN ParseI64(q.val).val ELSE default

\* GET /loyalties?<limit>&<offset>
GetLoyalties(c, limit, offset, f) ==
    /\ Await \/ (resp.route = "add" /\ resp.client = c)
    /\ tasks[c] = Idle
    /\ LET auth == FromRequest(jar[c])
           elements == LoyaltiesOf(auth.user, ParamOr(limit, DefaultLimit),
                                   ParamOr(offset, DefaultOffset))
           r == [Request("list", c) EXCEPT
                    !.principal = SomeInt(auth.user), !.req = <<limit, offset>>,
                    !.dbCalls = 1, !.fault = (f # DieselOk),
                    !.prevAdd = IF resp.route = "add" /\ resp.client = c /\ resp.status = 200
                                THEN [some |-> TRUE, inserted |-> resp.inserted,
                                      body |-> resp.req, user |-> resp.principal.val,
                                      fresh |-> resp.fresh]
                                ELSE NoAdd]
       IN  resp' = IF ~auth.ok THEN [Forbidden("list", c) EXCEPT !.req = <<limit, offset>>]
                   ELSE IF f # DieselOk THEN [r EXCEPT !.status = 404]
                   ELSE [r EXCEPT !.status = 200, !.rows = elements,
                                  !.out = MapResponse(elements)]
    /\ UNCHANGED <<users, cards, userSeq, cardSeq, jar, tasks, quota>>

\* DELETE /loyalties/<loyalty_id>
DeleteLoyalty(c, loyalty_id, f) ==
    /\ Await
    /\ tasks[c] = Idle
    /\ UNCHANGED <<users, userSeq, cardSeq, jar, tasks, quota>>
    /\ LET id == ParseI32(loyalty_id)
           r == [Request("delete", c) EXCEPT !.req = loyalty_id]
           q == [r EXCEPT !.dbCalls = 1, !.fault = (f # DieselOk),
                          !.found = (\E k \in cards : k.id = id.val)]
       IN  IF ~id.some
           THEN /\ resp' = Failed(r, ParsingError)
                /\ UNCHANGED cards
           ELSE IF f # DieselOk
           THEN /\ resp' = Failed(q, DieselError(f))
                /\ UNCHANGED cards
           ELSE /\ cards' = DeleteById(id.val)
                /\ resp' = [q EXCEPT !.status = 200, !.text = "loyalty deleted",
                                     !.changed = (cards' # cards \/ users' # users)]

\* the client drops its cookie or replaces it by a value of its own making
Tamper(c, ck) ==
    /\ Await
    /\ tasks[c] = Idle
    /\ jar[c] # ck
    /\ jar' = [jar EXCEPT ![c] = ck]
    /\ UNCHANGED <<users, cards, userSeq, cardSeq, tasks, quota, resp>>

(***************************************************************************)
(* Specifications                                                          *)
(***************************************************************************)
Init ==
    /\ users = {}
    /\ cards = {}
    /\ userSeq = 0
    /\ cardSeq = 0
    /\ jar = [c \in Clients |-> NoCookie]
    /\ tasks = [c \in Clients |-> Idle]
    /\ quota = MaxCreates
    /\ resp = NoResp

\* one step of the service when store calls end as F allows
Step(F) ==
    \/ Receive
    \/ \E c \in Clients, f \in F :
        \/ \E body \in SignupBodies : SignupValidate(c, body)
        \/ SignupInsert(c, f)
        \/ \E body \in SigninBodies : Signin(c, body, f)
        \/ SignOut(c)
        \/ GetUser(c, f)
        \/ \E body \in CardBodies : AddLoyaltyInsert(c, body, f)
        \/ AddLoyaltyReadBack(c, f)
        \/ \E q \in ListQueries : GetLoyalties(c, q[1], q[2], f)
        \/ \E loyalty_id \in IdStrings : DeleteLoyalty(c, loyalty_id, f)
        \/ \E ck \in {NoCookie} \cup ForgedCookies : Tamper(c, ck)

\* a store that already holds both accounts and k cards of user 1
Preloaded(k) ==
    {[id |-> i, name |-> "Store", color |-> NoneStr, code |-> "123", user_id |-> 1] :
        i \in 1..k}

InitPaged ==
    /\ users = {[id |-> 1, email |-> EmailA, name |-> "A", pass |-> "p"],
                [id |-> 2, email |-> EmailB, name |-> "B", pass |-> "q"]}
    /\ userSeq = 2
    /\ \E k \in {DefaultLimit - 1, DefaultLimit} : cards = Preloaded(k) /\ cardSeq = k
    /\ jar = [c \in Clients |-> NoCookie]
    /\ tasks = [c \in Clients |-> Idle]
    /\ quota = MaxPagedCreates
    /\ resp = NoResp

\* every store call succeeds, but for the unique index on users.email
Next == Step({DieselOk})

Spec == Init /\ [][Next]_vars

SpecPaged == InitPaged /\ [][Next]_vars

\* a store call may also end in a persistence error
NextFault == Step({DieselOk} \cup StoreFaults)

SpecFault == Init /\ [][NextFault]_vars

(***************************************************************************)
(* Properties                                                              *)
(***************************************************************************)
Protected == {"userinfo", "add", "list"}

Verifies(ck) == ck.present /\ ck.sealed

\* sealed values whose payload is no integer
UnparsableSealed ==
    {[present |-> TRUE, sealed |-> TRUE, payload |-> p, uid |-> 0] :
        p \in {<<>>, <<"x">>, <<"1", "x">>}}

\* C1: a request to a protected route whose user_id cookie is absent, does
\* not verify or holds no integer is answered 403 without a principal and
\* without any store call; a principal that is produced carries the id the
\* server sealed into the cookie at a successful sign-in, which is a user's id.
C1_ProtectedRoutesNeedSession ==
    /\ (resp.route \in Protected /\ ~Verifies(resp.cookie)) =>
          /\ resp.status = 403
          /\ ~resp.principal.some
          /\ resp.dbCalls = 0
          /\ ~resp.changed
    /\ resp.route \in Protected =>
          \A ck \in UnparsableSealed : FromRequest(ck).status = 403
    /\ resp.principal.some =>
          /\ resp.route \in Protected
          /\ Verifies(resp.cookie)
          /\ resp.principal.val = resp.cookie.uid
          /\ \E u \in users : u.id = resp.principal.val

\* a forged cookie naming an existing user's id was rejected
C1_Witness ==
    /\ resp.route \in Protected
    /\ resp.cookie = Forged(<<"1">>)
    /\ resp.status = 403
    /\ \E u \in users : u.id = 1

\* C2: a list response holds only rows of cards whose user_id is the
\* principal's, whatever limit and offset were given.
C2_ListOnlyOwnCards ==
    (resp.route = "list" /\ resp.status = 200) =>
        /\ Len(resp.out) = Len(resp.rows)
        /\ \A i \in 1..Len(resp.rows) :
              /\ resp.rows[i].user_id = resp.principal.val
              /\ resp.rows[i] \in cards
              /\ resp.out[i] = AddLoyaltyResponse(resp.rows[i])

\* a non-empty list was returned while another user's card was stored
C2_Witness ==
    /\ resp.route = "list"
    /\ resp.status = 200
    /\ resp.rows # <<>>
    /\ \E k \in cards : k.user_id # resp.principal.val

\* C3: signin answers 200 "connected" and sets the session cookie to the
\* matching user's id exactly when a user row has that email and that pass;
\* otherwise it answers 403 "invalid credentials" and leaves the cookie as
\* it was.
C3_SigninIffExactMatch ==
    resp.route = "signin" =>
        LET matching == {u \in users : u.email = resp.req.email /\ u.pass = resp.req.pass}
        IN  IF matching # {}
            THEN /\ resp.status = 200
                 /\ resp.text = "connected"
                 /\ jar[resp.client] = resp.cookieAfter
                 /\ Verifies(resp.cookieAfter)
                 /\ \E u \in matching :
                       /\ resp.cookieAfter.uid = u.id
                       /\ FromRequest(resp.cookieAfter).user = u.id
            ELSE /\ resp.status = 403
                 /\ resp.text = "invalid credentials"
                 /\ jar[resp.client] = resp.cookie

\* a signin was refused although one user has the email and one the pass
C3_Witness ==
    /\ resp.route = "signin"
    /\ resp.status = 403
    /\ \E u \in users : u.email = resp.req.email
    /\ \E u \in users : u.pass = resp.req.pass

\* C4: no two user rows share an email; a valid signup answers 200 and adds
\* the one row with its email when the email was not stored, and answers 400
\* leaving the table alone when it was, in whatever order concurrent signups
\* reach the store; no signup answers 500.
C4_SignupOncePerEmail ==
    /\ \A u, v \in users : u.email = v.email => u = v
    /\ resp.route = "signup" =>
          /\ resp.status # 500
          /\ Validate(resp.req) =>
                IF resp.found
                THEN resp.status = 400 /\ ~resp.changed
                ELSE /\ resp.status = 200
                     /\ Cardinality({u \in users : u.email = resp.req.email}) = 1

\* a signup lost the race: its email was free when it was validated and
\* taken when its insert ran
C4_Witness ==
    /\ resp.route = "signup"
    /\ resp.status = 400
    /\ resp.fresh
    /\ resp.found

\* C5: signout answers 200 "logged out" whatever cookie the client holds and
\* leaves the client without cookie; a client gets a cookie that verifies
\* only from a successful signin of its own, and until then its requests to
\* protected routes are answered 403.
C5_SignoutClearsSession ==
    /\ [](resp.route = "signout" =>
            /\ resp.status = 200
            /\ resp.text = "logged out"
            /\ ~jar[resp.client].present)
    /\ [][\A c \in Clients :
            (~Verifies(jar[c]) /\ Verifies(jar'[c])) =>
                (resp'.route = "signin" /\ resp'.client = c /\ resp'.status = 200)]_vars
    /\ []((resp.route \in Protected /\ ~Verifies(jar[resp.client])) => resp.status = 403)

\* a client that held a valid cookie signed out
C5_Witness ==
    /\ resp.route = "signout"
    /\ Verifies(resp.cookie)
    /\ ~jar[resp.client].present

\* a list with default limit and offset that directly follows a successful
\* create by the same client and principal
ListAfterCreate ==
    /\ resp.route = "list"
    /\ resp.status = 200
    /\ resp.req = <<NoneQuery, NoneQuery>>
    /\ resp.prevAdd.some
    /\ resp.prevAdd.user = resp.principal.val

\* the list holds the row the create inserted: the request's name, color and
\* code under the id the insert was given, an id no card had before
ListsCreatedCard ==
    /\ resp.prevAdd.fresh
    /\ \E i \in 1..Len(resp.out) :
          resp.out[i] = [id |-> ToString(resp.prevAdd.inserted),
                         name |-> resp.prevAdd.body.name,
                         color |-> resp.prevAdd.body.color,
                         code |-> resp.prevAdd.body.code]

\* C6 as stated: whatever the store held before, a list with default limit
\* and offset right after a successful create by the same principal holds
\* the created card.
C6_CreateThenListShowsCard == ListAfterCreate => ListsCreatedCard

\* C6: a list with default limit and offset right after a successful create
\* by the same principal holds the created card, with the request's name,
\* color and code and an id no card had before, provided the principal then
\* owns at most DefaultLimit cards and the inserted row is still stored.
C6_CreateThenListWithinPage ==
    ( /\ ListAfterCreate
      /\ Cardinality({k \in cards : k.user_id = resp.principal.val}) <= DefaultLimit
      /\ \E k \in cards : k.id = resp.prevAdd.inserted )
    => ListsCreatedCard

\* the created card is the last one of a full default page
C6_Witness ==
    /\ ListAfterCreate
    /\ Len(resp.out) = DefaultLimit
    /\ resp.out[DefaultLimit].id = ToString(resp.prevAdd.inserted)
    /\ resp.prevAdd.body.color.some

\* the status the mapping table gives each failure kind
ClassifierTable(e) ==
    CASE e.tag = "SignError" -> 400
      [] e.tag = "DieselError" /\ e.variant = "DatabaseError" /\ e.kind = "UniqueViolation" -> 400
      [] e.tag = "DieselError" -> 500
      [] e.tag = "NotAuthorized" -> 403
      [] e.tag = "ParsingError" -> 400

\* C7: APIError's responder gives every error value a request ends with the
\* status of the mapping table: validation 400, unique violation 400, other
\* persistence errors 500, NotAuthorized 403, ParsingError 400.
C7_ResponderFollowsTable ==
    resp.err # NoError => RespondTo(resp.err) = ClassifierTable(resp.err)

\* C8: a persistence error other than a unique violation, raised in signup,
\* signin, create-card, list-cards or delete-card, reaches the client as 500.
C8_PersistenceErrorIs500 ==
    (resp.fault /\ resp.route \in {"signup", "signin", "add", "list", "delete"}) =>
        resp.status = 500

\* text that is a decimal i32: an optional sign, then digits, at least one,
\* whose value without leading zeros has fewer digits than 2147483647, or
\* as many and is not above it (2147483648 after a minus sign)
RECURSIVE AllDigits(_)
AllDigits(s) == s = <<>> \/ (IsDigit(Head(s)) /\ AllDigits(Tail(s)))

RECURSIVE StripZeros(_)
StripZeros(s) == IF s # <<>> /\ Head(s) = "0" THEN StripZeros(Tail(s)) ELSE s

\* a <= b for digit sequences of equal length
RECURSIVE DigitsLeq(_, _)
DigitsLeq(a, b) ==
    \/ a = <<>>
    \/ DigitVal(Head(a)) < DigitVal(Head(b))
    \/ (Head(a) = Head(b) /\ DigitsLeq(Tail(a), Tail(b)))

IsI32Text(s) ==
    LET signed == s # <<>> /\ Head(s) \in {"+", "-"}
        digits == IF signed THEN Tail(s) ELSE s
        value == StripZeros(digits)
        most == IF signed /\ Head(s) = "-"
                THEN <<"2", "1", "4", "7", "4", "8", "3", "6", "4", "8">>
                ELSE <<"2", "1", "4", "7", "4", "8", "3", "6", "4", "7">>
    IN  /\ digits # <<>>
        /\ AllDigits(digits)
        /\ Len(value) < Len(most) \/ (Len(value) = Len(most) /\ DigitsLeq(value, most))

\* C9: a delete whose id is no decimal i32 is answered 400 without a store
\* call and leaves the tables alone; a delete with a numeric id is answered
\* 200 "loyalty deleted", changes the tables only when a card had that id,
\* and leaves no card with that id, so a repeated delete changes nothing.
C9_DeleteParsesThenDeletes ==
    resp.route = "delete" =>
        IF ~IsI32Text(resp.req)
        THEN /\ resp.status = 400
             /\ resp.err = ParsingError
             /\ resp.dbCalls = 0
             /\ ~resp.changed
        ELSE /\ resp.status = 200
             /\ resp.text = "loyalty deleted"
             /\ resp.changed = resp.found
             /\ ~\E k \in cards : k.id = ParseI32(resp.req).val

\* a delete of an id that no card has was answered 200 with cards stored
C9_Witness ==
    /\ resp.route = "delete"
    /\ resp.status = 200
    /\ ~resp.found
    /\ cards # {}

\* C10: the row a create reads back is the row it inserted: the read-back
\* is not empty, the response carries the request's name, color and code,
\* and the row belongs to the principal.
C10_ReadBackIsOwnInsert ==
    (resp.route = "add" /\ resp.dbCalls = 2) =>
        /\ resp.status = 200
        /\ Len(resp.rows) = 1
        /\ resp.rows[1].id = resp.inserted
        /\ resp.rows[1].user_id = resp.principal.val
        /\ resp.out[1].name = resp.req.name
        /\ resp.out[1].color = resp.req.color
        /\ resp.out[1].code = resp.req.code

====
